---------------------------- MODULE Spec2Model ----------------------------
(***************************************************************************)
(* pingGraphGo (src/main.go): a probe goroutine (ping) appends one sample  *)
(* per cycle to the shared slices times/pings; the main goroutine handles  *)
(* UI events and a one-second tick that snapshots times and renders; a     *)
(* third goroutine turns SIGINT/SIGTERM into an exit.                      *)
(*                                                                         *)
(* Every step below is one statement (or one run of statements touching no *)
(* shared variable) of main.go.  The shared bool `running` is read and     *)
(* written without synchronisation; a word-sized access is one step here,  *)
(* and the race shows as the order of the steps.  Latencies are float64 in *)
(* the source: the model keeps whole milliseconds and the one non-number   *)
(* -D can parse to, NaN, with float64's comparison rules.                  *)
(*                                                                         *)
(* Spec and FairSpec follow the three goroutines.  StatsSpec follows the   *)
(* series alone: one sample appended per step as ping appends it, and      *)
(* updateStats applied to the whole series after each append; quotients    *)
(* are kept as num/den and the standard deviation as its square.           *)
(***************************************************************************)
EXTENDS Integers, Sequences, FiniteSets

\* ---------------------------------------------------------------- bounds
\* probe cycles the model lets the engine start
MaxPings == 3
\* ticker firings the model delivers to the render loop
MaxTicks == 2

\* ------------------------------------------------------- values and config
\* float64 NaN, which flag.Float64 (strconv.ParseFloat) accepts for -D
NaN == -1
\* main.go:39, the ceiling of -D
Ceiling == 10000
\* -W values tried (main.go:25, default 150)
Timeouts == {150}
\* -D values tried (main.go:27, default 500)
DeadTimeouts == {100, 500, 10001, NaN}
\* duration.Milliseconds() of an echo reply (main.go:325); longer ones, and
\* one equal to -D, are tried under StatsSpec
Delays == {5}

\* float64 comparisons: every ordered comparison with NaN is false
FGt(a, b) == a # NaN /\ b # NaN /\ a > b
FLt(a, b) == a # NaN /\ b # NaN /\ a < b
FLe(a, b) == a # NaN /\ b # NaN /\ a <= b

\* main.go:39, the condition under which startup prints and exits 1
DeadTimeoutOutOfRange(t, d) == FGt(d, Ceiling) \/ FLt(d, t)

\* -------------------------------------------------- updateStats, main.go:347
\* float64 ==, != and >= : NaN equals nothing, itself included
FEq(a, b) == a # NaN /\ b # NaN /\ a = b
FNe(a, b) == ~FEq(a, b)
FGe(a, b) == a # NaN /\ b # NaN /\ a >= b
\* float64 +, - and |x|: NaN in, NaN out
FAdd(a, b) == IF a = NaN \/ b = NaN THEN NaN ELSE a + b
FAbsDiff(a, b) == IF a = NaN \/ b = NaN THEN NaN ELSE IF a >= b THEN a - b ELSE b - a
\* (k*t - s)^2 for the count k, as float64 computes it
FSqDev(k, t, s) == IF t = NaN \/ s = NaN THEN NaN ELSE (k * t - s) * (k * t - s)

\* a float64 result that need not be whole: num/den, NaN when num is NaN
Ratio(n, d) == [num |-> n, den |-> d]
\* the zero value `var avgTime, minTime, maxTime, stdDev, jitter float64` starts at
Zero == Ratio(0, 1)
\* r is the whole number k
IsWhole(r, k) == r.num # NaN /\ r.num = k * r.den

\* main.go:349-354: the samples kept as valid
validTimes(ts, d) == SelectSeq(ts, LAMBDA t : FNe(t, d))

\* main.go:358-361: sum over validTimes
RECURSIVE SumOf(_)
SumOf(s) == IF s = <<>> THEN 0 ELSE FAdd(SumOf(SubSeq(s, 1, Len(s) - 1)), s[Len(s)])

\* main.go:364-373: minTime, starting from s[1] and replaced only when t < minTime
RECURSIVE MinUpTo(_, _)
MinUpTo(s, i) ==
    IF i = 0 THEN s[1]
    ELSE LET m == MinUpTo(s, i - 1) IN IF FLt(s[i], m) THEN s[i] ELSE m

\* main.go:364-373: maxTime, starting from s[1] and replaced only when t > maxTime
RECURSIVE MaxUpTo(_, _)
MaxUpTo(s, i) ==
    IF i = 0 THEN s[1]
    ELSE LET m == MaxUpTo(s, i - 1) IN IF FGt(s[i], m) THEN s[i] ELSE m

\* main.go:376-379: sumSquares, scaled by Len(s)^2 so that it stays whole:
\* (t - sum/k)^2 = (k*t - sum)^2 / k^2
RECURSIVE SumSquaresUpTo(_, _, _)
SumSquaresUpTo(s, sum, i) ==
    IF i = 0 THEN 0
    ELSE FAdd(SumSquaresUpTo(s, sum, i - 1), FSqDev(Len(s), s[i], sum))

\* main.go:384-387: sumDiffs over neighbours in validTimes
RECURSIVE SumDiffsUpTo(_, _)
SumDiffsUpTo(s, i) ==
    IF i <= 1 THEN 0
    ELSE FAdd(SumDiffsUpTo(s, i - 1), FAbsDiff(s[i], s[i - 1]))

\* main.go:393-402: the two counters of the second pass
timesGreaterThanTimeout(ts, t, d) ==
    Cardinality({i \in 1..Len(ts) : FGt(ts[i], t) /\ FNe(ts[i], d)})
timesLost(ts, d) == Cardinality({i \in 1..Len(ts) : FEq(ts[i], d)})

\* main.go:403-408: a percentage of the whole series, 0.0 when it is empty
Percentage(count, n) == IF n > 0 THEN Ratio(count * 100, n) ELSE Zero

\* main.go:411-427: the third pass after the first i samples:
\* currentSequenceTimeout, maxSequentialTimeout, totalTimeout
RECURSIVE SequencePass(_, _, _, _)
SequencePass(ts, t, d, i) ==
    IF i = 0 THEN [current |-> 0, max |-> 0, total |-> 0]
    ELSE LET p == SequencePass(ts, t, d, i - 1) IN
         IF FGe(ts[i], t) /\ FNe(ts[i], d)
           THEN [current |-> p.current + 1, max |-> p.max, total |-> p.total + 1]
         ELSE IF FEq(ts[i], d)
           THEN [current |-> p.current + 1, max |-> p.max, total |-> p.total + 1]
         ELSE [current |-> 0,
               max |-> IF p.current > p.max THEN p.current ELSE p.max,
               total |-> p.total]

\* main.go:428-430: the run still open after the last sample is counted
maxSequentialTimeout(ts, t, d) ==
    LET p == SequencePass(ts, t, d, Len(ts)) IN
    IF p.current > p.max THEN p.current ELSE p.max

\* main.go:347-436: the numbers updateStats prints.  stdDev is kept as its
\* square (math.Sqrt is 0 exactly at 0 and NaN exactly at NaN).
updateStats(ts, t, d) ==
    LET v == validTimes(ts, d)
        k == Len(v)
        sum == SumOf(v)
    IN  [avgTime  |-> IF k > 0 THEN Ratio(sum, k) ELSE Zero,
         minTime  |-> IF k > 0 THEN MinUpTo(v, k) ELSE 0,
         maxTime  |-> IF k > 0 THEN MaxUpTo(v, k) ELSE 0,
         stdDevSq |-> IF k > 0 THEN Ratio(SumSquaresUpTo(v, sum, k), k * k * k) ELSE Zero,
         jitter   |-> IF k > 1 THEN Ratio(SumDiffsUpTo(v, k), k - 1) ELSE Zero,
         percentageGreaterThanTimeout |->
             Percentage(timesGreaterThanTimeout(ts, t, d), Len(ts)),
         percentageLost |-> Percentage(timesLost(ts, d), Len(ts)),
         totalN |-> Len(ts),
         totalTimeout |-> SequencePass(ts, t, d, Len(ts)).total,
         maxSequentialTimeout |-> maxSequentialTimeout(ts, t, d),
         timesLost |-> timesLost(ts, d)]

\* ------------------------------------------------ the chart, main.go:148-166
\* what indexing an empty slice does (main.go:439): a run-time panic
Panic == -2
\* plot.Data[0]: the points, and the scale they were filled in.  Under "log"
\* a point x stands for math.Log10(x).
Line(scale, data) == [scale |-> scale, data |-> data]
\* main.go:83: plot.Data = make([][]float64, 1), its one line still nil
NoLine == Line("linear", <<>>)
\* plot.MaxVal, read the same way
Shown(scale, v) == [scale |-> scale, value |-> v]

\* main.go:150-157: transformedData[i] = math.Log10(v) if v > 0, else 0,
\* which is math.Log10(1)
transformedData(data) ==
    [i \in 1..Len(data) |-> IF FGt(data[i], 0) THEN data[i] ELSE 1]

\* main.go:438-446: maxFloat64 starts from slice[0] and replaces max only
\* when v > max.  (math.Log10 is increasing, so over transformedData the
\* largest logarithm is that of the largest point.)
maxFloat64(slice) == IF slice = <<>> THEN Panic ELSE MaxUpTo(slice, Len(slice))

VARIABLES
    timeout,      \* *timeout  (-W)
    deadTimeout,  \* *deadTimeout (-D)
    times,        \* []float64 shared series of latencies
    pings,        \* []int shared series of sequence numbers
    mutex,        \* sync.Mutex: "free", or the goroutine holding it
    running,      \* shared flag
    pingCount,    \* sequence counter
    currentScale, \* "linear" | "log"
    mainPc,       \* position of the main goroutine
    probePc,      \* position of the ping goroutine
    sigPc,        \* position of the signal goroutine
    outcome,      \* how the current probe cycle ended
    sample,       \* the value the current cycle is about to append
    plotData,     \* the snapshot copied on the last tick
    plotLine,     \* plot.Data[0], with the scale it was filled in
    plotMax,      \* plot.MaxVal, with the scale it was computed in
    rendered,     \* termui.Render(grid) was called on the last tick
    statsN,       \* "Total N" of the last statsText
    stats,        \* what updateStats returns for a series (under StatsSpec)
    replySeq,     \* Seq of the echo reply read in this cycle, 0 if none
    exited,       \* the process has ended
    exitCode,     \* its exit status
    stopReason,   \* why ping returned
    \* bookkeeping of what happened (not program state)
    ticks,        \* ticker firings handled
    sends,        \* conn.WriteTo calls made
    lateRedraws,  \* termui.Render calls made while running was false
    sleeps,       \* time.Sleep(interval) calls that have returned
    unlocked      \* shared accesses made without holding the mutex

vars == <<timeout, deadTimeout, times, pings, mutex, running, pingCount,
          currentScale, mainPc, probePc, sigPc, outcome, sample, plotData,
          plotLine, plotMax, rendered,
          statsN, stats, replySeq, exited, exitCode, stopReason, ticks, sends,
          lateRedraws, sleeps, unlocked>>

cfgVars   == <<timeout, deadTimeout>>
seriesVars == <<times, pings>>
plotVars  == <<plotLine, plotMax, rendered>>
mainVars  == <<currentScale, mainPc, plotData, plotVars, statsN, stats, ticks,
               lateRedraws>>
probeVars == <<pingCount, probePc, outcome, sample, replySeq, stopReason, sends,
               sleeps>>
exitVars  == <<exited, exitCode>>

\* main.go:22-58, the state when main starts with the parsed flags
Init ==
    /\ timeout \in Timeouts
    /\ deadTimeout \in DeadTimeouts
    /\ times = <<>>
    /\ pings = <<>>
    /\ mutex = "free"
    /\ running = TRUE
    /\ pingCount = 0
    /\ currentScale = "linear"
    /\ mainPc = "args"
    /\ probePc = "unborn"
    /\ sigPc = "unborn"
    /\ outcome = "none"
    /\ sample = 0
    /\ plotData = <<>>
    /\ plotLine = NoLine
    /\ plotMax = Shown("linear", 0)
    /\ rendered = FALSE
    /\ statsN = 0
    /\ stats = updateStats(<<>>, timeout, deadTimeout)
    /\ replySeq = 0
    /\ exited = FALSE
    /\ exitCode = 0
    /\ stopReason = "none"
    /\ ticks = 0
    /\ sends = 0
    /\ lateRedraws = 0
    /\ sleeps = 0
    /\ unlocked = {}

\* a shared access by goroutine g: recorded when g does not hold the mutex
Access(g, what) == IF mutex = g THEN unlocked ELSE unlocked \cup {<<g, what>>}

\* os.Exit(code), or main returning: the process and all goroutines end
Exit(code) == exited' = TRUE /\ exitCode' = code


\* ------------------------------------------------------------ main goroutine

\* main.go:32-36: no host argument: usage, os.Exit(1)
MainNoArgs ==
    /\ ~exited /\ mainPc = "args"
    /\ mainPc' = "exitUsage" /\ Exit(1)
    /\ UNCHANGED <<cfgVars, seriesVars, mutex, running, probeVars, sigPc,
                   currentScale, plotData, plotVars, statsN, stats, ticks,
                   lateRedraws, unlocked>>

\* main.go:32-37: a host argument is present
MainArgsOk ==
    /\ ~exited /\ mainPc = "args"
    /\ mainPc' = "validate"
    /\ UNCHANGED <<cfgVars, seriesVars, mutex, running, probeVars, sigPc, exitVars,
                   currentScale, plotData, plotVars, statsN, stats, ticks,
                   lateRedraws, unlocked>>

\* main.go:39-42: -D out of range: message, os.Exit(1)
MainRejectDeadTimeout ==
    /\ ~exited /\ mainPc = "validate"
    /\ DeadTimeoutOutOfRange(timeout, deadTimeout)
    /\ mainPc' = "exitRange" /\ Exit(1)
    /\ UNCHANGED <<cfgVars, seriesVars, mutex, running, probeVars, sigPc,
                   currentScale, plotData, plotVars, statsN, stats, ticks,
                   lateRedraws, unlocked>>

\* main.go:39-43: the range check passes
MainAcceptDeadTimeout ==
    /\ ~exited /\ mainPc = "validate"
    /\ ~DeadTimeoutOutOfRange(timeout, deadTimeout)
    /\ mainPc' = "resolve"
    /\ UNCHANGED <<cfgVars, seriesVars, mutex, running, probeVars, sigPc, exitVars,
                   currentScale, plotData, plotVars, statsN, stats, ticks,
                   lateRedraws, unlocked>>

\* main.go:44-48: resolveHostname fails: message, os.Exit(1)
MainResolveFail ==
    /\ ~exited /\ mainPc = "resolve"
    /\ mainPc' = "exitResolve" /\ Exit(1)
    /\ UNCHANGED <<cfgVars, seriesVars, mutex, running, probeVars, sigPc,
                   currentScale, plotData, plotVars, statsN, stats, ticks,
                   lateRedraws, unlocked>>

\* main.go:44-58: resolveHostname returns an address; the shared state is set up
MainResolveOk ==
    /\ ~exited /\ mainPc = "resolve"
    /\ mainPc' = "spawn"
    /\ UNCHANGED <<cfgVars, seriesVars, mutex, running, probeVars, sigPc, exitVars,
                   currentScale, plotData, plotVars, statsN, stats, ticks,
                   lateRedraws, unlocked>>

\* main.go:60-66: go func() { ping(...) }()
MainSpawn ==
    /\ ~exited /\ mainPc = "spawn"
    /\ probePc' = "listen"
    /\ mainPc' = "init"
    /\ UNCHANGED <<cfgVars, seriesVars, mutex, running, sigPc, exitVars, pingCount,
                   outcome, sample, stopReason, sends, currentScale, plotData,
                   plotVars, statsN, stats, ticks, lateRedraws, unlocked, replySeq,
                   sleeps>>

\* main.go:69-72: termui.Init fails: message, os.Exit(1)
MainInitFail ==
    /\ ~exited /\ mainPc = "init"
    /\ mainPc' = "exitInit" /\ Exit(1)
    /\ UNCHANGED <<cfgVars, seriesVars, mutex, running, probeVars, sigPc,
                   currentScale, plotData, plotVars, statsN, stats, ticks,
                   lateRedraws, unlocked>>

\* main.go:69-116: termui is up, widgets and ticker are built, the signal
\* handler is installed and its goroutine started (a signal that comes before
\* signal.Notify is not the program's to handle and is not modelled)
MainInitOk ==
    /\ ~exited /\ mainPc = "init"
    /\ mainPc' = "loop"
    /\ sigPc' = "waiting"
    /\ UNCHANGED <<cfgVars, seriesVars, mutex, running, probeVars, exitVars,
                   currentScale, plotData, plotVars, statsN, stats, ticks,
                   lateRedraws, unlocked>>

\* MainLoopCheck with the loop condition never read as false
MainLoopCheckIgnoringFlag ==
    /\ ~exited /\ mainPc = "loop"
    /\ mainPc' = "select"
    /\ unlocked' = Access("main", "read running")
    /\ UNCHANGED <<cfgVars, seriesVars, mutex, running, probeVars, sigPc, exitVars,
                   currentScale, plotData, plotVars, statsN, stats, ticks,
                   lateRedraws>>

\* main.go:118: `for running`, the flag read without the mutex
MainLoopCheck ==
    /\ ~exited /\ mainPc = "loop"
    /\ mainPc' = IF running THEN "select" ELSE "wait"
    /\ unlocked' = Access("main", "read running")
    /\ UNCHANGED <<cfgVars, seriesVars, mutex, running, probeVars, sigPc, exitVars,
                   currentScale, plotData, plotVars, statsN, stats, ticks,
                   lateRedraws>>

\* main.go:120-125: key "q" or "<C-c>": running = false
MainQuitKey ==
    /\ ~exited /\ mainPc = "select"
    /\ running' = FALSE
    /\ mainPc' = "quitting"
    /\ unlocked' = Access("main", "write running")
    /\ UNCHANGED <<cfgVars, seriesVars, mutex, probeVars, sigPc, exitVars,
                   currentScale, plotData, plotVars, statsN, stats, ticks,
                   lateRedraws>>

\* main.go:126-128: termui.Close, "Exiting...", os.Exit(0)
MainQuitExit ==
    /\ ~exited /\ mainPc = "quitting"
    /\ mainPc' = "exitQuit" /\ Exit(0)
    /\ UNCHANGED <<cfgVars, seriesVars, mutex, running, probeVars, sigPc,
                   currentScale, plotData, plotVars, statsN, stats, ticks,
                   lateRedraws, unlocked>>

\* MainToggleScale that only ever switches to the log scale
MainToggleScaleOneWay ==
    /\ ~exited /\ mainPc = "select"
    /\ currentScale' = "log"
    /\ mainPc' = "loop"
    /\ UNCHANGED <<cfgVars, seriesVars, mutex, running, probeVars, sigPc, exitVars,
                   plotData, plotVars, statsN, stats, ticks, lateRedraws, unlocked>>

\* main.go:129-134: key "l" flips the scale
MainToggleScale ==
    /\ ~exited /\ mainPc = "select"
    /\ currentScale' = IF currentScale = "linear" THEN "log" ELSE "linear"
    /\ mainPc' = "loop"
    /\ UNCHANGED <<cfgVars, seriesVars, mutex, running, probeVars, sigPc, exitVars,
                   plotData, plotVars, statsN, stats, ticks, lateRedraws, unlocked>>

\* main.go:136-139: a resize event changes the layout only
MainResize ==
    /\ ~exited /\ mainPc = "select"
    /\ mainPc' = "loop"
    /\ UNCHANGED <<cfgVars, seriesVars, mutex, running, probeVars, sigPc, exitVars,
                   currentScale, plotData, plotVars, statsN, stats, ticks,
                   lateRedraws, unlocked>>

\* main.go:141: the select receives from ticker.C
MainTick ==
    /\ ~exited /\ mainPc = "select"
    /\ ticks < MaxTicks
    /\ ticks' = ticks + 1
    /\ rendered' = FALSE
    /\ mainPc' = "lock"
    /\ UNCHANGED <<cfgVars, seriesVars, mutex, running, probeVars, sigPc, exitVars,
                   currentScale, plotData, plotLine, plotMax, statsN, stats,
                   lateRedraws, unlocked>>

\* MainLock without waiting for the mutex to be free
MainLockElided ==
    /\ ~exited /\ mainPc = "lock"
    /\ mutex' = "main"
    /\ mainPc' = "copy"
    /\ UNCHANGED <<cfgVars, seriesVars, running, probeVars, sigPc, exitVars,
                   currentScale, plotData, plotVars, statsN, stats, ticks,
                   lateRedraws, unlocked>>

\* main.go:143: mutex.Lock()
MainLock ==
    /\ ~exited /\ mainPc = "lock"
    /\ mutex = "free"
    /\ mutex' = "main"
    /\ mainPc' = "copy"
    /\ UNCHANGED <<cfgVars, seriesVars, running, probeVars, sigPc, exitVars,
                   currentScale, plotData, plotVars, statsN, stats, ticks,
                   lateRedraws, unlocked>>

\* main.go:144-145: plotData := copy of times
MainCopy ==
    /\ ~exited /\ mainPc = "copy"
    /\ plotData' = times
    /\ unlocked' = Access("main", "read times")
    /\ mainPc' = "unlock"
    /\ UNCHANGED <<cfgVars, seriesVars, mutex, running, probeVars, sigPc, exitVars,
                   currentScale, plotVars, statsN, stats, ticks, lateRedraws>>

\* main.go:146: mutex.Unlock()
MainUnlock ==
    /\ ~exited /\ mainPc = "unlock"
    /\ mutex' = "free"
    /\ mainPc' = "stats"
    /\ UNCHANGED <<cfgVars, seriesVars, running, probeVars, sigPc, exitVars,
                   currentScale, plotData, plotVars, statsN, stats, ticks,
                   lateRedraws, unlocked>>

\* main.go:148-170 once `fill` is decided: the line and its maximum are set
\* in the current scale, then updateStats(&times, ...) walks the shared slice
\* itself (main.go:350, 395, 405, 414, 434).  A panic in maxFloat64 ends the
\* process with status 2.
FillAndStats(fill) ==
    LET data == IF currentScale = "log" THEN transformedData(plotData) ELSE plotData
        max  == maxFloat64(data)
    IN  IF fill /\ max = Panic
          THEN /\ mainPc' = "panic" /\ Exit(2)
               /\ UNCHANGED <<plotLine, plotMax, statsN, unlocked>>
          ELSE /\ plotLine' = IF fill THEN Line(currentScale, data) ELSE plotLine
               /\ plotMax' = IF fill THEN Shown(currentScale, max) ELSE plotMax
               /\ statsN' = Len(times)
               /\ unlocked' = Access("main", "read times")
               /\ mainPc' = "render"
               /\ UNCHANGED exitVars

\* MainStats with main.go:148 left out: the chart is filled on every tick
MainStatsUnguarded ==
    /\ ~exited /\ mainPc = "stats"
    /\ FillAndStats(TRUE)
    /\ UNCHANGED <<cfgVars, seriesVars, mutex, running, probeVars, sigPc,
                   currentScale, plotData, rendered, stats, ticks, lateRedraws>>

\* main.go:148-170: `if len(plotData) > 0` the chart is filled; the stats
\* text is set either way
MainStats ==
    /\ ~exited /\ mainPc = "stats"
    /\ FillAndStats(Len(plotData) > 0)
    /\ UNCHANGED <<cfgVars, seriesVars, mutex, running, probeVars, sigPc,
                   currentScale, plotData, rendered, stats, ticks, lateRedraws>>

\* main.go:172-175: with at least two points, termui.Render(grid)
MainRender ==
    /\ ~exited /\ mainPc = "render"
    /\ Len(plotData) >= 2
    /\ rendered' = TRUE
    /\ lateRedraws' = IF running THEN lateRedraws ELSE lateRedraws + 1
    /\ mainPc' = "loop"
    /\ UNCHANGED <<cfgVars, seriesVars, mutex, running, probeVars, sigPc, exitVars,
                   currentScale, plotData, plotLine, plotMax, statsN, stats, ticks,
                   unlocked>>

\* main.go:176-180: with fewer, updateStats once more and no Render
MainStatsOnly ==
    /\ ~exited /\ mainPc = "render"
    /\ Len(plotData) < 2
    /\ statsN' = Len(times)
    /\ unlocked' = Access("main", "read times")
    /\ mainPc' = "loop"
    /\ UNCHANGED <<cfgVars, seriesVars, mutex, running, probeVars, sigPc, exitVars,
                   currentScale, plotData, plotVars, stats, ticks, lateRedraws>>

\* main.go:183-184: wg.Wait() returns once ping has returned; main returns
MainWait ==
    /\ ~exited /\ mainPc = "wait"
    /\ probePc = "stopped"
    /\ mainPc' = "returned" /\ Exit(0)
    /\ UNCHANGED <<cfgVars, seriesVars, mutex, running, probeVars, sigPc,
                   currentScale, plotData, plotVars, statsN, stats, ticks,
                   lateRedraws, unlocked>>

\* ---------------------------------------------------------- signal goroutine

\* main.go:111-112: a SIGINT/SIGTERM is received: running = false
SigArrive ==
    /\ ~exited /\ sigPc = "waiting"
    /\ running' = FALSE
    /\ sigPc' = "closing"
    /\ unlocked' = Access("sig", "write running")
    /\ UNCHANGED <<cfgVars, seriesVars, mutex, probeVars, mainVars, exitVars>>

\* main.go:113-115: termui.Close, "Exiting...", os.Exit(0)
SigExit ==
    /\ ~exited /\ sigPc = "closing"
    /\ sigPc' = "exit" /\ Exit(0)
    /\ UNCHANGED <<cfgVars, seriesVars, mutex, running, probeVars, mainVars,
                   unlocked>>

\* ------------------------------------------------------------ ping goroutine

\* main.go:228-233: icmp.ListenPacket fails: message, *running = false, return
ProbeListenFail ==
    /\ ~exited /\ probePc = "listen"
    /\ running' = FALSE
    /\ probePc' = "stopped"
    /\ stopReason' = "listen"
    /\ unlocked' = Access("probe", "write running")
    /\ UNCHANGED <<cfgVars, seriesVars, mutex, mainVars, sigPc, exitVars,
                   pingCount, outcome, sample, sends, replySeq, sleeps>>

\* main.go:228-236: the socket is open
ProbeListenOk ==
    /\ ~exited /\ probePc = "listen"
    /\ probePc' = "check"
    /\ UNCHANGED <<cfgVars, seriesVars, mutex, running, mainVars, sigPc, exitVars,
                   pingCount, outcome, sample, stopReason, sends, replySeq, sleeps,
                   unlocked>>

\* ProbeLoopEnter entered whatever the flag says
ProbeLoopEnterIgnoringFlag ==
    /\ ~exited /\ probePc = "check"
    /\ pingCount < MaxPings
    /\ pingCount' = pingCount + 1
    /\ outcome' = "none"
    /\ replySeq' = 0
    /\ probePc' = "marshal"
    /\ unlocked' = Access("probe", "read running")
    /\ UNCHANGED <<cfgVars, seriesVars, mutex, running, mainVars, sigPc, exitVars,
                   sample, stopReason, sends, sleeps>>

\* main.go:238-261: `for *running` read as true: *pingCount++, the message is built
ProbeLoopEnter ==
    /\ ~exited /\ probePc = "check"
    /\ running
    /\ pingCount < MaxPings
    /\ pingCount' = pingCount + 1
    /\ outcome' = "none"
    /\ replySeq' = 0
    /\ probePc' = "marshal"
    /\ unlocked' = Access("probe", "read running")
    /\ UNCHANGED <<cfgVars, seriesVars, mutex, running, mainVars, sigPc, exitVars,
                   sample, stopReason, sends, sleeps>>

\* main.go:238, 345: `for *running` read as false: ping returns
ProbeLoopExit ==
    /\ ~exited /\ probePc = "check"
    /\ ~running
    /\ probePc' = "stopped"
    /\ stopReason' = "flag"
    /\ unlocked' = Access("probe", "read running")
    /\ UNCHANGED <<cfgVars, seriesVars, mutex, running, mainVars, sigPc, exitVars,
                   pingCount, outcome, sample, sends, replySeq, sleeps>>

\* ProbeMarshalFail returning without clearing the flag
ProbeMarshalFailKeepsFlag ==
    /\ ~exited /\ probePc = "marshal"
    /\ probePc' = "stopped"
    /\ stopReason' = "marshal"
    /\ UNCHANGED <<cfgVars, seriesVars, mutex, running, mainVars, sigPc, exitVars,
                   pingCount, outcome, sample, sends, replySeq, sleeps, unlocked>>

\* main.go:263-268: msg.Marshal fails: message, *running = false, return
ProbeMarshalFail ==
    /\ ~exited /\ probePc = "marshal"
    /\ running' = FALSE
    /\ probePc' = "stopped"
    /\ stopReason' = "marshal"
    /\ unlocked' = Access("probe", "write running")
    /\ UNCHANGED <<cfgVars, seriesVars, mutex, mainVars, sigPc, exitVars,
                   pingCount, outcome, sample, sends, replySeq, sleeps>>

\* main.go:263-272: the message is marshalled
ProbeMarshalOk ==
    /\ ~exited /\ probePc = "marshal"
    /\ probePc' = "send"
    /\ UNCHANGED <<cfgVars, seriesVars, mutex, running, mainVars, sigPc, exitVars,
                   pingCount, outcome, sample, stopReason, sends, replySeq, sleeps,
                   unlocked>>

\* ProbeSendFail going straight to the sleep, with no sample recorded
ProbeSendFailNoAppend ==
    /\ ~exited /\ probePc = "send"
    /\ sends' = sends + 1
    /\ outcome' = "sendfail"
    /\ sample' = deadTimeout
    /\ probePc' = "sleep"
    /\ UNCHANGED <<cfgVars, seriesVars, mutex, running, mainVars, sigPc, exitVars,
                   pingCount, stopReason, replySeq, sleeps, unlocked>>

\* ProbeSendFail treated like the marshal failure: flag cleared, ping returns
ProbeSendFailFatal ==
    /\ ~exited /\ probePc = "send"
    /\ sends' = sends + 1
    /\ outcome' = "sendfail"
    /\ sample' = deadTimeout
    /\ running' = FALSE
    /\ probePc' = "stopped"
    /\ stopReason' = "send"
    /\ unlocked' = Access("probe", "write running")
    /\ UNCHANGED <<cfgVars, seriesVars, mutex, mainVars, sigPc, exitVars,
                   pingCount, replySeq, sleeps>>

\* main.go:273-275: conn.WriteTo fails: the cycle will record deadTimeout
ProbeSendFail ==
    /\ ~exited /\ probePc = "send"
    /\ sends' = sends + 1
    /\ outcome' = "sendfail"
    /\ sample' = deadTimeout
    /\ probePc' = "lock"
    /\ UNCHANGED <<cfgVars, seriesVars, mutex, running, mainVars, sigPc, exitVars,
                   pingCount, stopReason, replySeq, sleeps, unlocked>>

\* main.go:273-289: conn.WriteTo succeeds, the read deadline is set
ProbeSendOk ==
    /\ ~exited /\ probePc = "send"
    /\ sends' = sends + 1
    /\ probePc' = "await"
    /\ UNCHANGED <<cfgVars, seriesVars, mutex, running, mainVars, sigPc, exitVars,
                   pingCount, outcome, sample, stopReason, replySeq, sleeps,
                   unlocked>>

\* main.go:277, 297, 303, 319, 336 append deadTimeout; 324-327 append the
\* measured delay
SampleValue(kind, delay, d) == IF kind = "echo" THEN delay ELSE d

\* what conn.ReadFrom and icmp.ParseMessage can come back with, and the value
\* each branch appends: main.go:293-299 timeout, 300-305 other receive error,
\* 316-321 parse failure, 333-338 not an echo reply, 324-329 echo reply
Classified(kind, delay) ==
    /\ outcome' = kind
    /\ sample' = SampleValue(kind, delay, deadTimeout)
    /\ probePc' = "lock"

\* main.go:290-295: ReadFrom ends with a timeout
ProbeTimeout ==
    /\ ~exited /\ probePc = "await"
    /\ Classified("timeout", 0)
    /\ UNCHANGED <<cfgVars, seriesVars, mutex, running, mainVars, sigPc, exitVars,
                   pingCount, stopReason, sends, replySeq, sleeps, unlocked>>

\* main.go:290-301: ReadFrom ends with another error
ProbeRecvError ==
    /\ ~exited /\ probePc = "await"
    /\ Classified("recverr", 0)
    /\ UNCHANGED <<cfgVars, seriesVars, mutex, running, mainVars, sigPc, exitVars,
                   pingCount, stopReason, sends, replySeq, sleeps, unlocked>>

\* main.go:290-317: a message arrives and icmp.ParseMessage fails
ProbeParseFail ==
    /\ ~exited /\ probePc = "await"
    /\ Classified("parsefail", 0)
    /\ UNCHANGED <<cfgVars, seriesVars, mutex, running, mainVars, sigPc, exitVars,
                   pingCount, stopReason, sends, replySeq, sleeps, unlocked>>

\* main.go:290-334: a message arrives that is not an echo reply
ProbeNonEcho ==
    /\ ~exited /\ probePc = "await"
    /\ Classified("nonecho", 0)
    /\ UNCHANGED <<cfgVars, seriesVars, mutex, running, mainVars, sigPc, exitVars,
                   pingCount, stopReason, sends, replySeq, sleeps, unlocked>>

\* the Seq an echo reply read in cycle k can carry: that of this cycle's
\* request, or of the one before (a late or duplicated reply); main.go:246
\* sends Seq = *pingCount
ReplySeqs(k) == {k - 1, k} \ {0}

\* ProbeEchoReply that accepts only the reply to this cycle's request and
\* takes any other as no reply
ProbeEchoReplyMatched ==
    /\ ~exited /\ probePc = "await"
    /\ \E delay \in Delays, seq \in ReplySeqs(pingCount) :
           /\ replySeq' = seq
           /\ IF seq = pingCount THEN Classified("echo", delay)
                                 ELSE Classified("timeout", 0)
    /\ UNCHANGED <<cfgVars, seriesVars, mutex, running, mainVars, sigPc, exitVars,
                   pingCount, stopReason, sends, sleeps, unlocked>>

\* main.go:290-325: the message ReadFrom returns is an echo reply, read
\* `delay` ms after `start`; its Body (ID, Seq) is never looked at
ProbeEchoReply ==
    /\ ~exited /\ probePc = "await"
    /\ \E delay \in Delays : Classified("echo", delay)
    /\ \E seq \in ReplySeqs(pingCount) : replySeq' = seq
    /\ UNCHANGED <<cfgVars, seriesVars, mutex, running, mainVars, sigPc, exitVars,
                   pingCount, stopReason, sends, sleeps, unlocked>>

\* main.go:276, 296, 302, 318, 326, 335: mutex.Lock()
ProbeLock ==
    /\ ~exited /\ probePc = "lock"
    /\ mutex = "free"
    /\ mutex' = "probe"
    /\ probePc' = "appendTimes"
    /\ UNCHANGED <<cfgVars, seriesVars, running, mainVars, sigPc, exitVars,
                   pingCount, outcome, sample, stopReason, sends, replySeq, sleeps,
                   unlocked>>

\* main.go:277, 297, 303, 319, 327, 336: *times = append(*times, ...)
ProbeAppendTimes ==
    /\ ~exited /\ probePc = "appendTimes"
    /\ times' = Append(times, sample)
    /\ probePc' = "appendPings"
    /\ unlocked' = Access("probe", "write times")
    /\ UNCHANGED <<cfgVars, pings, mutex, running, mainVars, sigPc, exitVars,
                   pingCount, outcome, sample, stopReason, sends, replySeq, sleeps>>

\* ProbeAppendPings recording the sequence number from 0
ProbeAppendPingsOffByOne ==
    /\ ~exited /\ probePc = "appendPings"
    /\ pings' = Append(pings, pingCount - 1)
    /\ probePc' = "unlock"
    /\ unlocked' = Access("probe", "write pings")
    /\ UNCHANGED <<cfgVars, times, mutex, running, mainVars, sigPc, exitVars,
                   pingCount, outcome, sample, stopReason, sends, replySeq, sleeps>>

\* main.go:278, 298, 304, 320, 328, 337: *pings = append(*pings, *pingCount)
ProbeAppendPings ==
    /\ ~exited /\ probePc = "appendPings"
    /\ pings' = Append(pings, pingCount)
    /\ probePc' = "unlock"
    /\ unlocked' = Access("probe", "write pings")
    /\ UNCHANGED <<cfgVars, times, mutex, running, mainVars, sigPc, exitVars,
                   pingCount, outcome, sample, stopReason, sends, replySeq, sleeps>>

\* ProbeUnlock after which a failed send goes round without sleeping
ProbeUnlockSkipsSleep ==
    /\ ~exited /\ probePc = "unlock"
    /\ mutex' = "free"
    /\ probePc' = IF outcome = "sendfail" THEN "check" ELSE "sleep"
    /\ UNCHANGED <<cfgVars, seriesVars, running, mainVars, sigPc, exitVars,
                   pingCount, outcome, sample, stopReason, sends, replySeq, sleeps,
                   unlocked>>

\* ProbeUnlock forgotten: the mutex is kept across the sleep
ProbeUnlockForgotten ==
    /\ ~exited /\ probePc = "unlock"
    /\ probePc' = "sleep"
    /\ UNCHANGED <<cfgVars, seriesVars, mutex, running, mainVars, sigPc, exitVars,
                   pingCount, outcome, sample, stopReason, sends, replySeq, sleeps,
                   unlocked>>

\* main.go:279, 299, 305, 321, 329, 338: mutex.Unlock()
ProbeUnlock ==
    /\ ~exited /\ probePc = "unlock"
    /\ mutex' = "free"
    /\ probePc' = "sleep"
    /\ UNCHANGED <<cfgVars, seriesVars, running, mainVars, sigPc, exitVars,
                   pingCount, outcome, sample, stopReason, sends, replySeq, sleeps,
                   unlocked>>

\* main.go:280-281, 343: time.Sleep(interval), back to the loop condition
ProbeSleep ==
    /\ ~exited /\ probePc = "sleep"
    /\ sleeps' = sleeps + 1
    /\ probePc' = "check"
    /\ UNCHANGED <<cfgVars, seriesVars, mutex, running, mainVars, sigPc, exitVars,
                   pingCount, outcome, sample, stopReason, sends, replySeq,
                   unlocked>>

\* ------------------------------------------------------------ specification

Next ==
    \/ MainNoArgs \/ MainArgsOk
    \/ MainRejectDeadTimeout \/ MainAcceptDeadTimeout
    \/ MainResolveFail \/ MainResolveOk
    \/ MainSpawn
    \/ MainInitFail \/ MainInitOk
    \/ MainLoopCheck
    \/ MainQuitKey \/ MainQuitExit
    \/ MainToggleScale \/ MainResize
    \/ MainTick \/ MainLock \/ MainCopy \/ MainUnlock
    \/ MainStats \/ MainRender \/ MainStatsOnly
    \/ MainWait
    \/ SigArrive \/ SigExit
    \/ ProbeListenFail \/ ProbeListenOk
    \/ ProbeLoopEnter \/ ProbeLoopExit
    \/ ProbeMarshalFail \/ ProbeMarshalOk
    \/ ProbeSendFail \/ ProbeSendOk
    \/ ProbeTimeout \/ ProbeRecvError \/ ProbeParseFail \/ ProbeNonEcho
    \/ ProbeEchoReply
    \/ ProbeLock \/ ProbeAppendTimes \/ ProbeAppendPings \/ ProbeUnlock
    \/ ProbeSleep

Spec == Init /\ [][Next]_vars

\* Scheduling: a goroutine that can take a step of its own takes it (the Go
\* scheduler runs every runnable goroutine; WriteTo and Sleep return, ReadFrom
\* returns by its deadline).  Key presses, resizes, ticks and signals are the
\* environment's and need not come.  A goroutine waiting for the mutex gets
\* it if the mutex stays free.
ProbeStep ==
    \/ ProbeListenFail \/ ProbeListenOk \/ ProbeLoopEnter \/ ProbeLoopExit
    \/ ProbeMarshalFail \/ ProbeMarshalOk \/ ProbeSendFail \/ ProbeSendOk
    \/ ProbeTimeout \/ ProbeRecvError \/ ProbeParseFail \/ ProbeNonEcho
    \/ ProbeEchoReply \/ ProbeLock \/ ProbeAppendTimes \/ ProbeAppendPings
    \/ ProbeUnlock \/ ProbeSleep

MainStep ==
    \/ MainLoopCheck \/ MainQuitExit \/ MainLock \/ MainCopy \/ MainUnlock
    \/ MainStats \/ MainRender \/ MainStatsOnly \/ MainWait

FairSpec ==
    /\ Spec
    /\ WF_vars(ProbeStep)
    /\ WF_vars(MainStep)
    /\ WF_vars(SigExit)

\* ------------------------------------------- updateStats over whole series

\* samples in the series handed to updateStats
MaxLen == 5
\* -W values tried
StatsTimeouts == {20, 100, 500}
\* -D values tried
StatsDeadTimeouts == {500, NaN}
\* duration.Milliseconds() of an echo reply
StatsDelays == {5, 10, 20, 30, 500}
\* the ways a cycle of ping ends with a sample (main.go:273-338)
Kinds == {"sendfail", "timeout", "recverr", "parsefail", "nonecho", "echo"}
\* only an echo reply has a measured delay
DelaysOf(kind) == IF kind = "echo" THEN StatsDelays ELSE {0}

\* main.go:22-58 with flags that get past main.go:39, the series still empty
StatsInit ==
    /\ timeout \in StatsTimeouts
    /\ deadTimeout \in StatsDeadTimeouts
    /\ ~DeadTimeoutOutOfRange(timeout, deadTimeout)
    /\ times = <<>>
    /\ pings = <<>>
    /\ mutex = "free"
    /\ running = TRUE
    /\ pingCount = 0
    /\ currentScale = "linear"
    /\ mainPc = "args"
    /\ probePc = "unborn"
    /\ sigPc = "unborn"
    /\ outcome = "none"
    /\ sample = 0
    /\ plotData = <<>>
    /\ plotLine = NoLine
    /\ plotMax = Shown("linear", 0)
    /\ rendered = FALSE
    /\ statsN = 0
    /\ stats = updateStats(<<>>, timeout, deadTimeout)
    /\ replySeq = 0
    /\ exited = FALSE
    /\ exitCode = 0
    /\ stopReason = "none"
    /\ ticks = 0
    /\ sends = 0
    /\ lateRedraws = 0
    /\ sleeps = 0
    /\ unlocked = {}

\* one cycle of ping ends as `kind` and appends its sample (main.go:273-338),
\* then updateStats is applied to the series (main.go:169, 347-436)
StatsSample(kind, delay) ==
    /\ Len(times) < MaxLen
    /\ pingCount' = pingCount + 1
    /\ outcome' = kind
    /\ sample' = SampleValue(kind, delay, deadTimeout)
    /\ times' = Append(times, sample')
    /\ pings' = Append(pings, pingCount')
    /\ stats' = updateStats(times', timeout, deadTimeout)
    /\ statsN' = Len(times')
    /\ UNCHANGED <<cfgVars, mutex, running, currentScale, mainPc, probePc, sigPc,
                   plotData, plotVars, replySeq, exitVars, stopReason, ticks, sends,
                   lateRedraws, sleeps, unlocked>>

StatsNext == \E kind \in Kinds : \E delay \in DelaysOf(kind) : StatsSample(kind, delay)

StatsSpec == StatsInit /\ [][StatsNext]_vars

\* ------------------------------------------------------------------ claims

\* C1 (as claimed): every read and write of times, pings and running is made
\* by a goroutine that holds the mutex at that moment.
C1_SharedAccessUnderMutex == unlocked = {}

\* the positions of ping at which the cycle's append is behind it
CycleOver == probePc \in {"unlock", "sleep", "check"}

\* C2 (as claimed): every started cycle, the one ended by a marshal failure
\* included, has appended exactly one sample once it is over.
C2_EveryStartedCycleAppends ==
    (CycleOver \/ probePc = "stopped") =>
        (Len(times) = pingCount /\ Len(pings) = pingCount)

\* C2 (amended): every started cycle that gets past marshalling appends exactly
\* one sample (one latency, one sequence number) whatever its outcome; a cycle
\* that fails to marshal appends none and ends the engine.
C2_OneSamplePerMarshalledCycle ==
    /\ Len(times) \in {pingCount - 1, pingCount}
    /\ Len(pings) \in {pingCount - 1, pingCount}
    /\ CycleOver => (Len(times) = pingCount /\ Len(pings) = pingCount)
    /\ stopReason \in {"listen", "flag"} =>
           (Len(times) = pingCount /\ Len(pings) = pingCount)
    /\ stopReason = "marshal" =>
           (Len(times) = pingCount - 1 /\ Len(pings) = pingCount - 1)

C2_Witness ==
    /\ stopReason = "marshal" /\ pingCount = 2
    /\ Len(times) = 1 /\ outcome = "none"

\* C3: whenever the mutex is free, times and pings have the same length N and
\* pings is exactly 1, 2, ..., N.
C3_SequenceNumbersGapless ==
    mutex = "free" =>
        /\ Len(times) = Len(pings)
        /\ \A i \in 1..Len(pings) : pings[i] = i

C3_Witness == mutex = "free" /\ Len(pings) = 2 /\ probePc = "sleep"

\* C4: a tick's snapshot is never shorter than the previous one, is always a
\* prefix of the series, and is copied only when every sample in the series has
\* both its latency and its sequence number.
C4_SnapshotsGrowAndAreWhole ==
    /\ [](Len(plotData) <= Len(times) /\ plotData = SubSeq(times, 1, Len(plotData)))
    /\ [][(mainPc = "copy" /\ mainPc' # mainPc) =>
             /\ Len(times) = Len(pings)
             /\ probePc \notin {"appendTimes", "appendPings", "unlock"}
             /\ Len(plotData') >= Len(plotData)]_vars

C4_Witness ==
    /\ ticks = 2 /\ mainPc = "unlock" /\ Len(plotData) = 1
    /\ probePc = "lock" /\ pingCount = 2

\* ping has returned, or the process (and ping with it) has ended
ProbeStopped == probePc = "stopped" \/ exited

\* C5: once running is false, ping starts no new cycle (the counter no longer
\* moves and no request beyond the current cycle's is sent), the next read of
\* the loop condition ends ping, and ping does end.
C5_NoNewCycleAfterClear ==
    /\ [][~running => pingCount' = pingCount]_vars
    /\ [][(~running /\ sends' # sends) =>
             (sends' = pingCount /\ probePc = "send")]_vars
    /\ [][(~running /\ probePc = "check" /\ probePc' # probePc) =>
             probePc' = "stopped"]_vars
    /\ [](~running => <>ProbeStopped)

C5_Witness ==
    /\ ~running /\ stopReason = "flag" /\ ~exited
    /\ pingCount = 1 /\ sends = 1 /\ Len(times) = 1

\* C6 (as claimed): no termui.Render call is made while running is false.
C6_NoRedrawAfterClear == lateRedraws = 0

\* C6 (amended): after running is cleared the render loop makes at most one
\* more Render call, that of the tick it was waiting for or handling, because
\* it reads the flag only after the tick's body.
C6_AtMostOneRedrawAfterClear == lateRedraws <= 1

C6_Witness == lateRedraws = 1 /\ mainPc = "wait" /\ stopReason = "marshal"

\* C7 (as claimed): after a marshal failure the render loop is left only by a
\* quit event.
C7_RenderLoopOutlivesMarshalFailure ==
    stopReason = "marshal" => mainPc \notin {"wait", "returned"}

\* C7 (amended): a marshal failure clears running and ends ping; the render
\* loop then leaves at its next read of the loop condition, and main returns
\* with exit status 0 without any quit event.
C7_MarshalFailureEndsBoth ==
    /\ [](stopReason = "marshal" => (~running /\ probePc = "stopped"))
    /\ [][(stopReason = "marshal" /\ mainPc = "loop" /\ mainPc' # mainPc) =>
             mainPc' = "wait"]_vars
    /\ [][(stopReason = "marshal" /\ mainPc = "wait" /\ mainPc' # mainPc) =>
             (mainPc' = "returned" /\ exited' /\ exitCode' = 0)]_vars

C7_Witness ==
    /\ stopReason = "marshal" /\ mainPc = "returned" /\ sigPc = "waiting"
    /\ exited /\ exitCode = 0 /\ ticks = 2

\* C8 (as claimed): when icmp.ListenPacket fails nothing is ever sent or
\* appended, and the process, unless the user quits it first, ends with a
\* non-zero exit status.
C8_ListenFailureExitsNonZero ==
    stopReason = "listen" =>
        /\ sends = 0 /\ times = <<>> /\ pings = <<>>
        /\ (exited /\ mainPc # "exitQuit" /\ sigPc # "exit") => exitCode # 0

\* C9 (as claimed): a -D above 10000 or below -W is refused with exit status 1
\* before ping is started, a -D with Timeout <= -D <= 10000 is not refused by
\* that check, and so Timeout <= DeadTimeout <= 10000 whenever ping exists.
C9_ProbingImpliesDeadTimeoutInRange ==
    /\ (FGt(deadTimeout, Ceiling) \/ FLt(deadTimeout, timeout)) =>
           /\ probePc = "unborn" /\ sends = 0
           /\ mainPc \in {"args", "validate", "exitUsage", "exitRange"}
           /\ mainPc = "exitRange" => (exited /\ exitCode = 1)
    /\ (FLe(timeout, deadTimeout) /\ FLe(deadTimeout, Ceiling)) =>
           mainPc # "exitRange"
    /\ probePc # "unborn" =>
           (FLe(timeout, deadTimeout) /\ FLe(deadTimeout, Ceiling))

\* C10: a failed send records one deadTimeout sample under the current
\* sequence number without a second WriteTo and without any ReadFrom, ping
\* does not touch running on the way, sleeps, and the next cycle it starts
\* carries the next sequence number.
C10_SendFailureIsOneLostSample ==
    /\ [](outcome = "sendfail" =>
             /\ sample = deadTimeout
             /\ sends = pingCount
             /\ probePc \in {"lock", "appendTimes", "appendPings", "unlock",
                             "sleep", "check", "stopped"}
             /\ stopReason \in {"none", "flag"})
    /\ []((outcome = "sendfail" /\ CycleOver) =>
             /\ Len(times) = pingCount /\ Len(pings) = pingCount
             /\ times[pingCount] = deadTimeout
             /\ pings[pingCount] = pingCount)
    /\ [][((outcome = "sendfail" \/ outcome' = "sendfail") /\ probePc' # probePc) =>
             running' = running]_vars
    /\ [][(outcome = "sendfail" /\ probePc = "unlock" /\ probePc' # probePc) =>
             probePc' = "sleep"]_vars
    /\ [][(outcome = "sendfail" /\ probePc = "sleep" /\ probePc' # probePc) =>
             probePc' = "check"]_vars
    /\ [][(outcome = "sendfail" /\ probePc = "check" /\ running /\ probePc' # probePc) =>
             (probePc' = "marshal" /\ pingCount' = pingCount + 1 /\ sends' = sends)]_vars

C10_Witness ==
    /\ outcome = "sendfail" /\ probePc = "check" /\ running /\ ~exited
    /\ pingCount = 2 /\ times = <<5, deadTimeout>>

\* the series before its last sample was appended
Before == SubSeq(times, 1, Len(times) - 1)

\* C11 (as claimed): a sample appended for a received echo reply is kept among
\* the valid samples and is not counted as lost, whatever its duration (a
\* duration equal to DeadTimeout included).
C11_EchoReplyIsALatency ==
    (outcome = "echo" /\ times # <<>>) =>
        /\ Len(validTimes(times, deadTimeout)) =
               Len(validTimes(Before, deadTimeout)) + 1
        /\ stats.timesLost = timesLost(Before, deadTimeout)

\* C12 (as claimed): the statistics of a tick are computed from that tick's
\* snapshot: the Total N in the stats text equals the length of the snapshot
\* handed to the chart, even when ping appends a sample in between.
C12_StatsOfTheSnapshot ==
    mainPc = "render" =>
        statsN = Len(plotData)

\* C13: ping holds the mutex only from its Lock to the Unlock that follows one
\* append to times and one to pings, never while it sends, waits for a reply
\* or sleeps; and a tick that waits for the mutex gets it (or the process has
\* exited).
C13_MutexHeldOnlyToAppend ==
    /\ [](mutex = "probe" => probePc \in {"appendTimes", "appendPings", "unlock"})
    /\ [][(mutex # "probe" /\ mutex' = "probe") =>
             (Len(times) = pingCount - 1 /\ Len(pings) = pingCount - 1)]_vars
    /\ [][(mutex = "probe" /\ mutex' # "probe") =>
             (Len(times') = pingCount /\ Len(pings') = pingCount)]_vars
    /\ (mainPc = "lock") ~> (mainPc = "copy" \/ exited)

C13_Witness == mainPc = "lock" /\ mutex = "probe" /\ probePc = "appendPings"

\* a sample that stands for a lost probe: the DeadTimeout value itself
IsLost(t) == t = deadTimeout
\* a sample that is lost, or a latency of at least Timeout
IsLate(t) == IsLost(t) \/ (t # NaN /\ t >= timeout)
\* the length of the longest block of consecutive late samples
LongestLateBlock ==
    LET blocks == {b \in (1..Len(times)) \X (1..Len(times)) :
                      b[1] <= b[2] /\ \A k \in b[1]..b[2] : IsLate(times[k])}
        lengths == {b[2] - b[1] + 1 : b \in blocks} \cup {0}
    IN  CHOOSE n \in lengths : \A m \in lengths : m <= n

\* C14 (as claimed): Max N SEQ is the length of the longest block, in the
\* unfiltered series, of samples that are lost or have latency >= Timeout; a
\* block that ends at the last sample counts; [lost, 5, lost, lost, 5] gives 2.
C14_LongestRun ==
    /\ stats.maxSequentialTimeout = LongestLateBlock
    /\ times = <<deadTimeout, 5, deadTimeout, deadTimeout, 5>> =>
           stats.maxSequentialTimeout = 2

\* the samples that are not lost, in order
ValidSamples == SelectSeq(times, LAMBDA t : ~IsLost(t))
\* how many samples are latencies above Timeout, how many are lost
OverTimeoutCount ==
    Cardinality({i \in 1..Len(times) : ~IsLost(times[i]) /\ times[i] > timeout})
LostCount == Cardinality({i \in 1..Len(times) : IsLost(times[i])})

\* C15 (as claimed): for a non-empty series the timeout percentage is the
\* number of valid samples above Timeout over the number of all samples, times
\* 100, the lost percentage is the number of lost samples over the same total,
\* times 100, and the two numerators together do not exceed the total.
C15_Percentages ==
    times # <<>> =>
        /\ stats.percentageGreaterThanTimeout = Ratio(OverTimeoutCount * 100, Len(times))
        /\ stats.percentageLost = Ratio(LostCount * 100, Len(times))
        /\ OverTimeoutCount + LostCount <= Len(times)

\* the smallest and the largest member of a non-empty set of numbers
Least(S) == CHOOSE x \in S : \A y \in S : x <= y
Greatest(S) == CHOOSE x \in S : \A y \in S : y <= x
Range(s) == {s[i] : i \in 1..Len(s)}

\* C16 (as claimed): average, min, max and jitter are those of the valid
\* samples alone, jitter being the sum of |v[i] - v[i-1]| over neighbours in
\* the filtered list divided by count - 1; [10, 20, 30] gives 20, 10, 30, 10.
C16_OverValidSamplesOnly ==
    LET v == ValidSamples IN
    /\ Len(v) > 0 =>
           /\ stats.avgTime = Ratio(SumOf(v), Len(v))
           /\ stats.minTime = Least(Range(v))
           /\ stats.maxTime = Greatest(Range(v))
    /\ Len(v) > 1 => stats.jitter = Ratio(SumDiffsUpTo(v, Len(v)), Len(v) - 1)
    /\ v = <<10, 20, 30>> =>
           /\ IsWhole(stats.avgTime, 20) /\ stats.minTime = 10
           /\ stats.maxTime = 30 /\ IsWhole(stats.jitter, 10)

\* C17 (as claimed): with no valid sample (the series is empty, or all of it
\* is lost) average, min, max, standard deviation and jitter are 0 and nothing
\* is divided by zero; for the empty series both percentages and the longest
\* run are 0.
C17_NoValidSample ==
    /\ ValidSamples = <<>> =>
           /\ stats.avgTime = Zero /\ stats.minTime = 0 /\ stats.maxTime = 0
           /\ stats.stdDevSq = Zero /\ stats.jitter = Zero
    /\ stats.avgTime.den > 0 /\ stats.stdDevSq.den > 0 /\ stats.jitter.den > 0
    /\ stats.percentageGreaterThanTimeout.den > 0 /\ stats.percentageLost.den > 0
    /\ times = <<>> =>
           /\ stats.percentageGreaterThanTimeout = Zero
           /\ stats.percentageLost = Zero
           /\ stats.maxSequentialTimeout = 0

\* the other display mode
OtherScale(m) == IF m = "linear" THEN "log" ELSE "linear"

\* C18: a scale toggle switches the display mode to the other of linear and
\* log, so that two toggles restore it; a resize leaves the mode alone; and
\* neither touches the series, the sequence counter, the running flag or the
\* configuration.
C18_ToggleAndResizeFrame ==
    /\ [](currentScale \in {"linear", "log"} /\ OtherScale(OtherScale(currentScale)) = currentScale)
    /\ [][MainToggleScale => currentScale' = OtherScale(currentScale)]_vars
    /\ [][MainResize => currentScale' = currentScale]_vars
    /\ [][(mainPc = "select" /\ mainPc' = "loop") =>
             UNCHANGED <<times, pings, pingCount, running, timeout, deadTimeout>>]_vars

C18_Witness ==
    /\ currentScale = "log" /\ mainPc = "loop" /\ ticks = 0
    /\ Len(times) = 2 /\ running

\* C19: the one message ReadFrom returns decides the cycle.  An echo reply is
\* accepted whatever Seq it carries, so a late or duplicated reply to probe k
\* read in the window of probe k+1 is recorded as the latency of probe k+1;
\* a message that is not an echo reply makes the cycle lost at once, with no
\* further read.
C19_FirstMessageDecides ==
    /\ [][(probePc = "await" /\ replySeq' # 0) =>
             (outcome' = "echo" /\ sample' \in Delays /\ probePc' = "lock")]_vars
    /\ [](outcome = "echo" /\ CycleOver =>
             /\ times[pingCount] = sample /\ sample \in Delays
             /\ pings[pingCount] = pingCount)
    /\ [][(probePc = "await" /\ outcome' = "nonecho") =>
             (sample' = deadTimeout /\ probePc' = "lock")]_vars
    /\ [][(probePc = "await" /\ probePc' # probePc) => probePc' = "lock"]_vars

C19_Witness ==
    /\ outcome = "echo" /\ probePc = "sleep"
    /\ pingCount = 2 /\ replySeq = 1
    /\ times[2] = 5 /\ pings[2] = 2

\* the moves of ping from one position to the next
CycleSteps ==
    {<<"unborn", "listen">>, <<"listen", "check">>, <<"listen", "stopped">>,
     <<"check", "marshal">>, <<"check", "stopped">>,
     <<"marshal", "send">>, <<"marshal", "stopped">>,
     <<"send", "await">>, <<"send", "lock">>, <<"await", "lock">>,
     <<"lock", "appendTimes">>, <<"appendTimes", "appendPings">>,
     <<"appendPings", "unlock">>, <<"unlock", "sleep">>, <<"sleep", "check">>}

\* C20: a cycle that does not end the engine builds, sends, waits for the
\* reply (not when the send fails), records one sample and sleeps, in that
\* order and whatever the outcome: at every send attempt the appends and the
\* sleeps so far are as many as the send attempts before it, and every sleep
\* follows the append of its cycle.
C20_BuildSendAwaitRecordSleep ==
    /\ [][probePc' # probePc => <<probePc, probePc'>> \in CycleSteps]_vars
    /\ [][(probePc = "send" /\ probePc' # probePc) =>
             (probePc' = "lock" <=> outcome' = "sendfail")]_vars
    /\ [][sends' # sends =>
             /\ sends' = sends + 1 /\ probePc = "send"
             /\ Len(times) = sends /\ Len(pings) = sends /\ sleeps = sends]_vars
    /\ [][sleeps' # sleeps =>
             /\ sleeps' = sleeps + 1 /\ probePc = "sleep"
             /\ Len(times) = sleeps' /\ Len(pings) = sleeps' /\ sends = sleeps']_vars
    /\ [](sleeps <= Len(times) /\ Len(times) <= sends /\ sends <= sleeps + 1)

C20_Witness ==
    /\ probePc = "await" /\ sends = 3 /\ sleeps = 2 /\ Len(times) = 2
    /\ times[1] = deadTimeout /\ times[2] = 5

\* C21: a tick calls termui.Render only with a snapshot of at least 2
\* samples; with 0 or 1 it sets the stats text again and draws nothing.  The
\* chart's line and maximum change only on a tick whose snapshot is not
\* empty, and are then that snapshot in the current scale and its maximum, so
\* maxFloat64 never indexes an empty slice.
C21_RedrawFromTwoSamples ==
    /\ [](rendered => Len(plotData) >= 2)
    /\ [][(mainPc = "render" /\ mainPc' # mainPc) =>
             /\ rendered' = (Len(plotData) >= 2)
             /\ Len(plotData) < 2 => statsN' = Len(times)]_vars
    /\ [][(plotLine' # plotLine \/ plotMax' # plotMax) =>
             /\ mainPc = "stats" /\ Len(plotData) > 0
             /\ Len(plotLine'.data) = Len(plotData)
             /\ plotLine'.scale = currentScale /\ plotMax'.scale = currentScale
             /\ plotMax'.value \in {plotLine'.data[i] : i \in 1..Len(plotData)}]_vars
    /\ [](mainPc # "panic" /\ plotMax.value # Panic)
    /\ [](plotLine = NoLine => ~rendered)

C21_Witness ==
    /\ ticks = 2 /\ mainPc = "loop" /\ ~rendered
    /\ Len(plotData) = 1 /\ plotLine = Line("log", <<5>>) /\ plotMax = Shown("log", 5)
    /\ statsN = 2

=============================================================================
